---- MODULE Spec2Model ----
(***************************************************************************)
(* Model of ExampleFinCalc.py: the retirement and savings projection.      *)
(*                                                                         *)
(* The script runs top to bottom once: it reads the scalar inputs, builds  *)
(* the inheritance list and the income schedule (one widget group per      *)
(* loop iteration), maps the schedule to months, simulates months          *)
(* 1..years*12 and reports.                                                *)
(*                                                                         *)
(* Money.  The script computes in binary floating point.  The model keeps  *)
(* amounts as integers counted in 1/Scale of a dollar (Scale = 10000, a    *)
(* hundredth of a cent) and rounds every product down to that grid.        *)
(* Inputs stay in whole dollars as the widgets return them; values passed  *)
(* through round(x, 2) are integers counted in cents.                      *)
(***************************************************************************)
EXTENDS Integers, Sequences, FiniteSets

\* ---------------------------------------------------------------- bounds
MaxYears == 6
MaxInheritances == 2
MaxPeriods == 2

\* ------------------------------------------------------ program constants
MinYears == 5
MinPeriods == 1
loan_interest_annual == 5
investment_return_annual == 7
Scale == 100 * 100
None == 0

\* ---------------------------------------------------- input value choices
LoanBalanceChoices == {-100, 0, 1000, 20000}
LoanPaymentChoices == {-50, 500}
SavingsRateChoices == {0, 20}
InheritanceChoices == {[year |-> 2, amount |-> 1000], [year |-> 3, amount |-> 500]}
PeriodChoices ==
    {[start_year |-> 1, end_year |-> 1, monthly_income |-> 4000],
     [start_year |-> 1, end_year |-> 7, monthly_income |-> 3000],
     [start_year |-> 2, end_year |-> 3, monthly_income |-> 0]}

VARIABLES
    loan_balance, loan_payment, savings_rate, years, retirement_year,
    num_inheritances, inheritances, num_periods, income_schedule,
    income_by_month, mapped,
    loan, invested, rows, loan_paid_off_month, month,
    history, report, pc

vars ==
    <<loan_balance, loan_payment, savings_rate, years, retirement_year,
      num_inheritances, inheritances, num_periods, income_schedule,
      income_by_month, mapped,
      loan, invested, rows, loan_paid_off_month, month,
      history, report, pc>>

inputs ==
    <<loan_balance, loan_payment, savings_rate, years, retirement_year,
      num_inheritances, num_periods>>

simulation == <<loan, invested, rows, loan_paid_off_month, month, history>>

\* --------------------------------------------------------------- helpers
Min(a, b) == IF a <= b THEN a ELSE b

Max(a, b) == IF a >= b THEN a ELSE b

\* floor(a * n / d) for n >= 0, d > 0, without forming a * n
MulDiv(a, n, d) == (a \div d) * n + ((a % d) * n) \div d

\* round(x, 2): x in 1/Scale dollars, result in cents, ties to even
Round2(x) ==
    LET q == x \div 100
        r == x % 100
    IN  IF r > 50 \/ (r = 50 /\ q % 2 = 1) THEN q + 1 ELSE q

\* the loop stops one month early
months_short == years * 12 - 1

months == years * 12

retirement_month == retirement_year * 12

\* ------------------------------------------------------ schedule resolver
\* the retirement test of line 66 is missing
PeriodMonths_unfiltered(period, rm) ==
    LET start_month == (period.start_year - 1) * 12 + 1
        end_month == period.end_year * 12
    IN  start_month..end_month

\* lines 63-66: the months of one period that are kept
PeriodMonths(period, rm) ==
    LET start_month == (period.start_year - 1) * 12 + 1
        end_month == period.end_year * 12
    IN  {m \in start_month..end_month : m <= rm}

\* setdefault instead of assignment: the first period covering a month wins
MapPeriod_keepfirst(map, period, rm) ==
    LET keys == PeriodMonths(period, rm)
    IN  [m \in (DOMAIN map) \cup keys |->
            IF m \in DOMAIN map THEN map[m] ELSE period.monthly_income]

\* lines 62-67, one iteration of the outer loop: dict assignment overwrites
MapPeriod(map, period, rm) ==
    LET keys == PeriodMonths(period, rm)
    IN  [m \in (DOMAIN map) \cup keys |->
            IF m \in keys THEN period.monthly_income ELSE map[m]]

\* income_by_month.get(month, 0)
IncomeGet(map, m) == IF m \in DOMAIN map THEN map[m] ELSE 0

\* ------------------------------------------------------ projection engine
YearOf(m) == (m - 1) \div 12 + 1

\* the annual rate applied every month
Interest_annual(l) == MulDiv(l, loan_interest_annual, 100)

\* loan * loan_interest_monthly, the monthly rate being annual / 12
Interest(l) == MulDiv(l, loan_interest_annual, 100 * 12)

\* invested * investment_return_monthly
Growth(v) == MulDiv(v, investment_return_annual, 100 * 12)

\* plain amortisation: the payment is not capped by the balance and the
\* displayed balance is not clamped
LoanMonth_uncapped(l, p) ==
    LET accrued == l + Interest(l)
        after == accrued - p
    IN  [accrued |-> accrued,
         loan_payment_actual |-> p,
         loan |-> after,
         LoanBalance |-> Round2(after)]

\* lines 83-87 and 109: accrual, capped payment, balance, displayed balance.
\* l in 1/Scale dollars, p the fixed payment in 1/Scale dollars.
LoanMonth(l, p) ==
    LET accrued == l + Interest(l)
        loan_payment_actual == Min(accrued, p)
        after == accrued - loan_payment_actual
    IN  [accrued |-> accrued,
         loan_payment_actual |-> loan_payment_actual,
         loan |-> after,
         LoanBalance |-> Round2(Max(after, 0))]

\* the "is None" test is missing: every paid-off month overwrites
PaidOffMonth_latest(prev, l, m) == IF l <= 0 THEN m ELSE prev

\* lines 90-91
PaidOffMonth(prev, l, m) == IF l <= 0 /\ prev = None THEN m ELSE prev

\* saves whether or not a loan balance remains
SavingsContrib_always(leftover, l, rate) == MulDiv(leftover, rate, 100)

\* line 97; rate is the slider's percentage, leftover * (rate / 100)
SavingsContrib(leftover, l, rate) ==
    IF l <= 0 THEN MulDiv(leftover, rate, 100) ELSE 0

\* next(...) instead of sum(...): only the first inheritance of the month
RECURSIVE InheritanceThisMonth_first(_, _)
InheritanceThisMonth_first(inhs, m) ==
    IF inhs = <<>> THEN 0
    ELSE IF inhs[1].month = m THEN inhs[1].amount
         ELSE InheritanceThisMonth_first(Tail(inhs), m)

\* line 100
RECURSIVE InheritanceThisMonth(_, _)
InheritanceThisMonth(inhs, m) ==
    IF inhs = <<>> THEN 0
    ELSE (IF inhs[1].month = m THEN inhs[1].amount ELSE 0)
         + InheritanceThisMonth(Tail(inhs), m)

\* line 135: the year shown in the paid-off message
MessageYear(m) == m \div 12

\* ------------------------------------------------------------------ Init
\* The widgets of lines 13-25 and 36 have returned.  Either the loan inputs
\* vary over their choices with a single income period, or the loan inputs
\* keep the widget defaults (20000, 500, 20 %) and the number of periods varies.
Init ==
    /\ \/ /\ loan_balance \in LoanBalanceChoices
          /\ loan_payment \in LoanPaymentChoices
          /\ savings_rate \in SavingsRateChoices
          /\ num_periods = MinPeriods
       \/ /\ loan_balance = 20000
          /\ loan_payment = 500
          /\ savings_rate = 20
          /\ num_periods \in MinPeriods..MaxPeriods
    /\ years \in MinYears..MaxYears
    /\ retirement_year \in {1, years}
    /\ num_inheritances \in 0..MaxInheritances
    /\ inheritances = <<>>
    /\ income_schedule = <<>>
    /\ income_by_month = <<>>
    /\ mapped = 0
    /\ loan = 0
    /\ invested = 0
    /\ rows = <<>>
    /\ loan_paid_off_month = None
    /\ month = 0
    /\ history = <<>>
    /\ report = [shown |-> FALSE]
    /\ pc = "inheritances"

\* --------------------------------------------------------------- actions
\* lines 28-32: one iteration of the inheritance widget loop
AddInheritance ==
    /\ pc = "inheritances"
    /\ Len(inheritances) < num_inheritances
    /\ \E c \in InheritanceChoices :
          inheritances' =
              Append(inheritances, [month |-> c.year * 12, amount |-> c.amount])
    /\ UNCHANGED <<inputs, income_schedule, income_by_month, mapped,
                   simulation, report, pc>>

\* lines 34-36: the inheritance loop is over, the schedule loop starts
StartSchedule ==
    /\ pc = "inheritances"
    /\ Len(inheritances) = num_inheritances
    /\ pc' = "schedule"
    /\ UNCHANGED <<inputs, inheritances, income_schedule, income_by_month,
                   mapped, simulation, report>>

\* lines 39-44: one iteration of the income period widget loop
AddPeriod ==
    /\ pc = "schedule"
    /\ Len(income_schedule) < num_periods
    /\ \E c \in PeriodChoices : income_schedule' = Append(income_schedule, c)
    /\ pc' = IF Len(income_schedule) + 1 = num_periods THEN "mapping" ELSE pc
    /\ UNCHANGED <<inputs, inheritances, income_by_month, mapped,
                   simulation, report>>

\* lines 61-67: one period of the income mapping; after the last one the
\* simulation state of lines 73-76 is set up
MapNextPeriod ==
    /\ pc = "mapping"
    /\ mapped < Len(income_schedule)
    /\ income_by_month' =
          MapPeriod(income_by_month, income_schedule[mapped + 1], retirement_month)
    /\ mapped' = mapped + 1
    /\ IF mapped + 1 = Len(income_schedule)
          THEN /\ pc' = "simulate"
               /\ loan' = loan_balance * Scale
          ELSE UNCHANGED <<pc, loan>>
    /\ UNCHANGED <<inputs, inheritances, income_schedule, invested, rows,
                   loan_paid_off_month, month, history, report>>

\* lines 78-115: one month of the simulation loop
SimMonth ==
    /\ pc = "simulate"
    /\ month < months
    /\ LET m == month + 1
           current_income == IncomeGet(income_by_month, m)
           lm == LoanMonth(loan, loan_payment * Scale)
           leftover == current_income * Scale - lm.loan_payment_actual
           savings_contrib == SavingsContrib(leftover, lm.loan, savings_rate)
           inheritance_this_month == InheritanceThisMonth(inheritances, m)
           new_invested == invested + Growth(invested) + savings_contrib
                           + inheritance_this_month * Scale
       IN  /\ month' = m
           /\ loan' = lm.loan
           /\ loan_paid_off_month' = PaidOffMonth(loan_paid_off_month, lm.loan, m)
           /\ invested' = new_invested
           /\ rows' = Append(rows,
                 [Year |-> YearOf(m),
                  Month |-> m,
                  Income |-> current_income,
                  LoanBalance |-> lm.LoanBalance,
                  LoanPayment |-> Round2(lm.loan_payment_actual),
                  RemainingIncome |-> Round2(leftover),
                  SavedThisMonth |-> Round2(savings_contrib),
                  TotalInvested |-> Round2(new_invested),
                  Inheritance |-> inheritance_this_month])
           /\ history' = Append(history,
                 [accrued |-> lm.accrued,
                  loan_payment_actual |-> lm.loan_payment_actual,
                  loan |-> lm.loan,
                  leftover |-> leftover,
                  savings_contrib |-> savings_contrib,
                  invested |-> new_invested])
           /\ pc' = IF m = months THEN "report" ELSE pc
    /\ UNCHANGED <<inputs, inheritances, income_schedule, income_by_month,
                   mapped, report>>

\* lines 117-135: progress figures and the paid-off message
Report ==
    /\ pc = "report"
    /\ LET final_loan_balance == rows[Len(rows)].LoanBalance
       IN  report' =
              [shown |-> TRUE,
               final_loan_balance |-> final_loan_balance,
               loan_paid |-> loan_balance * 100 - final_loan_balance,
               final_investment |-> rows[Len(rows)].TotalInvested,
               paid_off_message |-> loan_paid_off_month # None,
               message_month |-> loan_paid_off_month,
               message_year |-> MessageYear(loan_paid_off_month)]
    /\ pc' = "done"
    /\ UNCHANGED <<inputs, inheritances, income_schedule, income_by_month,
                   mapped, simulation>>

Next ==
    \/ AddInheritance
    \/ StartSchedule
    \/ AddPeriod
    \/ MapNextPeriod
    \/ SimMonth
    \/ Report

Spec == Init /\ [][Next]_vars

\* ------------------------------------------------- definitions for claims
Emitted == 1..Len(rows)

SimulationOver == pc \in {"report", "done"}

MappingOver == pc \in {"simulate", "report", "done"}

RECURSIVE SumAmounts(_)
SumAmounts(s) == IF s = <<>> THEN 0 ELSE s[1].amount + SumAmounts(Tail(s))

RECURSIVE SumInheritanceField(_)
SumInheritanceField(rs) ==
    IF rs = <<>> THEN 0 ELSE rs[1].Inheritance + SumInheritanceField(Tail(rs))

RECURSIVE SumAmountsAt(_)
SumAmountsAt(S) ==
    IF S = {} THEN 0
    ELSE LET i == CHOOSE i \in S : TRUE
         IN  inheritances[i].amount + SumAmountsAt(S \ {i})

\* the input inheritances scheduled at month m, added up
ScheduledAt(m) ==
    SumAmountsAt({i \in 1..Len(inheritances) : inheritances[i].month = m})

\* the positions in income_schedule of the periods that cover month m
Covering(m) ==
    {i \in 1..Len(income_schedule) :
        /\ (income_schedule[i].start_year - 1) * 12 + 1 <= m
        /\ m <= income_schedule[i].end_year * 12}

Largest(S) == CHOOSE i \in S : \A j \in S : j <= i

Least(S) == CHOOSE i \in S : \A j \in S : i <= j

\* the months so far at which the loan after interest and payment was <= 0
PaidMonths == {k \in 1..Len(history) : history[k].loan <= 0}

InvestedBefore(k) == IF k = 1 THEN 0 ELSE history[k - 1].invested

\* C1: the loop emits exactly years*12 records and the Month field of the
\* k-th record is k.
C1_MonthSequence ==
    /\ \A k \in Emitted : rows[k].Month = k
    /\ Len(rows) <= years * 12
    /\ SimulationOver => Len(rows) = years * 12

C1_Witness == pc = "done" /\ years = 6 /\ Len(rows) = 72 /\ rows[72].Month = 72

\* C2: the LoanBalance field of every emitted record is >= 0, whatever the
\* loan balance, the payment and the horizon.
C2_LoanBalanceNonNegative == \A k \in Emitted : rows[k].LoanBalance >= 0

C2_Witness ==
    /\ loan_balance < 0
    /\ Len(rows) >= 1
    /\ history[1].accrued < 0
    /\ rows[1].LoanBalance = 0

\* C3: once the payoff month is recorded, in every month at or after it the
\* loan after interest and payment is <= 0 and the savings contribution is
\* leftover * savings_rate, never the forced 0.
C3_NoSkipAfterPayoff ==
    \A k \in 1..Len(history) :
        (loan_paid_off_month # None /\ k >= loan_paid_off_month) =>
            /\ history[k].loan <= 0
            /\ history[k].savings_contrib =
                   MulDiv(history[k].leftover, savings_rate, 100)

\* C4: the Inheritance fields of all emitted records add up to the input
\* amounts, and each record carries the sum of the inheritances of its month.
C4_InheritanceSum ==
    /\ \A k \in Emitted : rows[k].Inheritance = ScheduledAt(k)
    /\ SimulationOver => SumInheritanceField(rows) = SumAmounts(inheritances)

C4_Witness ==
    /\ pc = "done"
    /\ Len(inheritances) = 2
    /\ inheritances[1].month = 24
    /\ inheritances[2].month = 24
    /\ rows[24].Inheritance = inheritances[1].amount + inheritances[2].amount
    /\ rows[24].Inheritance = 2000

\* C5: income_by_month has keys only for months <= retirement_year*12, every
\* record after the retirement month has Income 0, and one period of years
\* 1..1 at 4000 with retirement_year = 1 gives keys 1..12, all 4000.
C5_IncomeStopsAtRetirement ==
    /\ \A m \in DOMAIN income_by_month : m <= retirement_year * 12
    /\ \A k \in Emitted : rows[k].Month > retirement_year * 12 => rows[k].Income = 0
    /\ ( /\ MappingOver
         /\ retirement_year = 1
         /\ income_schedule =
                <<[start_year |-> 1, end_year |-> 1, monthly_income |-> 4000]>> )
       => /\ DOMAIN income_by_month = 1..12
          /\ \A m \in 1..12 : income_by_month[m] = 4000

C5_Witness ==
    /\ pc = "done"
    /\ retirement_year = 1
    /\ income_schedule = <<[start_year |-> 1, end_year |-> 7, monthly_income |-> 3000]>>
    /\ DOMAIN income_by_month = 1..12
    /\ rows[12].Income = 3000
    /\ rows[13].Income = 0

\* C6: with loan_balance 20000, loan_payment 500, zero income and zero
\* savings rate, LoanBalance strictly decreases month by month while it is
\* above 0, is 0 from then on, and the payoff month is the first month whose
\* balance after interest and payment is <= 0.
Scenario6 ==
    /\ loan_balance = 20000
    /\ loan_payment = 500
    /\ savings_rate = 0
    /\ \A i \in 1..Len(income_schedule) : income_schedule[i].monthly_income = 0

C6_LoanScenario ==
    Scenario6 =>
        /\ Len(rows) >= 1 => rows[1].LoanBalance < loan_balance * 100
        /\ \A k \in 1..(Len(rows) - 1) :
              IF rows[k].LoanBalance > 0
                 THEN rows[k + 1].LoanBalance < rows[k].LoanBalance
                 ELSE rows[k + 1].LoanBalance = 0
        /\ loan_paid_off_month =
              (IF PaidMonths = {} THEN None ELSE Least(PaidMonths))
        /\ \A k \in Emitted :
              (loan_paid_off_month # None /\ k >= loan_paid_off_month)
                  <=> rows[k].LoanBalance = 0
        /\ SimulationOver => loan_paid_off_month # None

C6_Witness ==
    /\ Scenario6
    /\ pc = "done"
    /\ loan_paid_off_month = 44
    /\ rows[1].LoanBalance = 1958333
    /\ rows[43].LoanBalance = 42251
    /\ rows[44].LoanPayment = 42427
    /\ rows[44].LoanBalance = 0
    /\ rows[60].LoanBalance = 0

\* C7: a month covered by several periods gets the income of the last of
\* them in input order; a month covered by none has no key and reads as 0.
C7_LastPeriodWins ==
    MappingOver =>
        \A m \in 1..(retirement_year * 12) :
            IF Covering(m) = {}
               THEN /\ m \notin DOMAIN income_by_month
                    /\ m \in Emitted => rows[m].Income = 0
               ELSE /\ m \in DOMAIN income_by_month
                    /\ income_by_month[m] =
                           income_schedule[Largest(Covering(m))].monthly_income
                    /\ m \in Emitted => rows[m].Income = income_by_month[m]

C7_Witness ==
    /\ pc = "done"
    /\ retirement_year = years
    /\ income_schedule =
           <<[start_year |-> 1, end_year |-> 7, monthly_income |-> 3000],
             [start_year |-> 1, end_year |-> 1, monthly_income |-> 4000]>>
    /\ Covering(1) = {1, 2}
    /\ rows[1].Income = 4000
    /\ rows[13].Income = 3000

\* C8: loan_paid_off_month is unset while the loan after payment was > 0 in
\* every month so far, and otherwise is the least month at which it was <= 0.
C8_PayoffRecordedOnce ==
    loan_paid_off_month = (IF PaidMonths = {} THEN None ELSE Least(PaidMonths))

C8_Witness ==
    /\ loan_paid_off_month = 3
    /\ month = 60
    /\ history[2].loan > 0
    /\ history[3].loan <= 0
    /\ history[60].loan <= 0

\* C9: in a month whose loan after interest and payment is > 0 nothing is
\* saved and invested changes by growth plus inheritance only; otherwise the
\* contribution is (income - min(loan after interest, payment)) * savings_rate.
C9_NoSavingWhileLoanRemains ==
    \A k \in 1..Len(history) :
        IF history[k].loan > 0
           THEN /\ rows[k].SavedThisMonth = 0
                /\ history[k].invested =
                       InvestedBefore(k)
                       + MulDiv(InvestedBefore(k), investment_return_annual, 1200)
                       + ScheduledAt(k) * Scale
           ELSE history[k].savings_contrib =
                    MulDiv(rows[k].Income * Scale
                             - Min(history[k].accrued, loan_payment * Scale),
                           savings_rate, 100)

C9_Witness ==
    /\ loan_balance = 1000
    /\ loan_payment = 500
    /\ savings_rate = 20
    /\ Len(history) >= 3
    /\ history[2].loan > 0
    /\ rows[2].Income = 4000
    /\ rows[2].SavedThisMonth = 0
    /\ history[3].loan <= 0
    /\ rows[3].SavedThisMonth = 79874

\* C10: every year reported for a month m is ((m-1)//12)+1: the Year field of
\* every record, and the year of the paid-off message, which equals the Year
\* field of the record of the payoff month.
C10_YearOfMonth ==
    /\ \A k \in Emitted : rows[k].Year = ((rows[k].Month - 1) \div 12) + 1
    /\ (report.shown /\ report.paid_off_message) =>
           report.message_year = rows[report.message_month].Year

====
